---- MODULE Spec2Model ----
(***************************************************************************)
(* Voice conversation bot: the queued text-to-speech dispatcher            *)
(* (speaker/speak.py, class VoiceSpeaker), the continuous listening loop   *)
(* (listener/listen.py, class VoiceListener) and the composition root      *)
(* (main.py, class VoiceConversationBot): its speech handler, its run,     *)
(* shutdown and signal handler, and the greeting of greeting/greet.py.     *)
(*                                                                         *)
(* Two threads touch the dispatcher: the caller thread (the main thread,   *)
(* which runs the listening loop and the signal handler) and the daemon    *)
(* worker thread started by VoiceSpeaker.__init__.  Every read or write of *)
(* a shared attribute is one step; queue.Queue operations are atomic       *)
(* because the queue takes its own lock.                                   *)
(***************************************************************************)
EXTENDS Integers, Sequences, FiniteSets, TLC

\* Number of distinct non-empty texts the caller hands to the dispatcher.
MaxReq == 2

\* Number of Transcriber outcomes one run of the listening loop meets.
MaxOutcomes == 4

\* The empty string "" (falsy in Python).  Non-empty texts are 1..MaxReq;
\* each call with a non-empty text uses a fresh one, so that the device log
\* identifies the request an utterance belongs to.
Empty == 0

VARIABLES
    engine,         \* self.engine is not None (pyttsx3.init() succeeded)
    is_speaking,    \* self.is_speaking
    speech_queue,   \* self.speech_queue, head first
    stop_flag,      \* self.stop_flag.is_set()
    wPc,            \* position of the worker thread in _speech_worker
    wText,          \* the worker's local variable text
    mPc,            \* position of the caller thread
    mOp,            \* the public method the caller is in (or was last in)
    mText,          \* argument text of that call
    mWait,          \* argument wait of speak
    mInner,         \* the nested call the caller is in, if any
    nextId,         \* next fresh text
    spoken,         \* device log: texts of the utter calls started, in order
    stopSignalled,  \* engine.stop() was invoked during the current call
    ret,            \* how the last completed call ended: "None" or "raised"
    notice,         \* the last completed call printed "TTS not available"
    waitCase,       \* why the last wait_until_done loop ended
    enqueued,       \* texts put on the queue by speak, in call order
    preempted,      \* speak_immediately, stop_all_speech or cleanup was called
    cleanupReturned,\* some cleanup() call has returned
    late,           \* texts passed to speak after cleanup() had returned
    inflightAtCall, \* an utterance was in flight when the current call began
    nowPending,     \* queue content when the last speak_immediately began idle
    nowMark,        \* Len(spoken) at that moment, -1 if there was none
    nowText,        \* argument text of that speak_immediately call
    waitSeen,       \* values wait_until_done has returned, by the way it ended
    faulted,        \* some utter call of the worker has raised
    repeated,       \* the current or last call is a stop_all_speech or
                    \* cleanup call that directly followed a call of the
                    \* same method
    exit_phrases,   \* the exit_phrases list of continuous_listen
    lPc,            \* position of continuous_listen
    lEnd,           \* why its loop ended: "exit" or "interrupt"
    outcomes,       \* the Transcriber outcomes listen_once has met, in order
    recognized_text,\* the local recognized_text (<<>> stands for None)
    handled,        \* the texts passed to on_speech_callback, in order
    bot_response,   \* the local bot_response of handle_user_speech
    callLog,        \* speech calls made by the current handle_user_speech,
                    \* or by greet_user before the first listen_once
    callbackRaised, \* some on_speech_callback call has raised
    bPc,            \* position of the main thread in VoiceConversationBot.run
    is_running,     \* self.is_running of the bot
    speaker,        \* self.speaker of the bot is not None
    signalled,      \* where run was when SIGINT/SIGTERM arrived, or "none"
    cleanupCalls,   \* number of self.speaker.cleanup() calls made by shutdown
    exit_status     \* exit status of the process, -1 while it runs

dvars == <<engine, is_speaking, speech_queue, stop_flag, wPc, wText, mPc, mOp,
           mText, mWait, mInner, nextId, spoken, stopSignalled, ret, notice,
           waitCase, enqueued, preempted, cleanupReturned, late,
           inflightAtCall, nowPending, nowMark, nowText, waitSeen, faulted,
           repeated>>

lvars == <<exit_phrases, lPc, lEnd, outcomes, recognized_text, handled,
           bot_response, callLog, callbackRaised>>

bvars == <<bPc, is_running, speaker, signalled, cleanupCalls, exit_status>>

vars == <<dvars, lvars, bvars>>

----------------------------------------------------------------------------
\* Helpers

SeqToSet(s) == {s[i] : i \in 1..Len(s)}

\* Threads that are between the start and the return of a device utter call
\* (engine.say + engine.runAndWait).
WorkerInFlight == wPc = "run"
CallerInFlight == mPc = "now_run"
InFlight == WorkerInFlight \/ CallerInFlight

\* A get that hands out the newest item instead of the oldest.
QueueLast(q) == q[Len(q)]

\* queue.Queue.get / get_nowait: the head of the queue.
QueueHead(q) == Head(q)
QueueRest(q) == Tail(q)

----------------------------------------------------------------------------
\* VoiceSpeaker.__init__

\* pyttsx3.init() either succeeds (engine set, attributes created, worker
\* thread started) or raises: the except branch sets engine = None and none
\* of is_speaking, speech_queue, stop_flag, speech_thread exists.
InitSpeaker ==
    /\ engine \in BOOLEAN
    /\ is_speaking = FALSE
    /\ speech_queue = <<>>
    /\ stop_flag = FALSE
    /\ wPc = IF engine THEN "loop" ELSE "absent"
    /\ wText = Empty
    /\ mPc = "idle"
    /\ mOp = "none"
    /\ mText = Empty
    /\ mWait = FALSE
    /\ mInner = "none"
    /\ nextId = 1
    /\ spoken = <<>>
    /\ stopSignalled = FALSE
    /\ ret = "none"
    /\ notice = FALSE
    /\ waitCase = "none"
    /\ enqueued = <<>>
    /\ preempted = FALSE
    /\ cleanupReturned = FALSE
    /\ late = {}
    /\ inflightAtCall = FALSE
    /\ nowPending = {}
    /\ nowMark = -1
    /\ nowText = Empty
    /\ waitSeen = [c \in {"idle", "timeout"} |-> {}]
    /\ faulted = FALSE
    /\ repeated = FALSE

----------------------------------------------------------------------------
\* VoiceSpeaker._speech_worker

\* A worker whose loop is "while True".
WorkerLoopForever ==
    /\ wPc = "loop"
    /\ wPc' = "get"
    /\ UNCHANGED <<engine, is_speaking, speech_queue, stop_flag, wText, mPc,
                   mOp, mText, mWait, mInner, nextId, spoken, stopSignalled,
                   ret, notice, waitCase, enqueued, preempted,
                   cleanupReturned, late, inflightAtCall, nowPending, nowMark,
                   nowText, waitSeen, faulted, repeated>>
    /\ UNCHANGED lvars
    /\ UNCHANGED bvars

\* line 88: while not self.stop_flag.is_set()
WorkerLoop ==
    /\ wPc = "loop"
    /\ wPc' = IF stop_flag THEN "exited" ELSE "get"
    /\ UNCHANGED <<engine, is_speaking, speech_queue, stop_flag, wText, mPc,
                   mOp, mText, mWait, mInner, nextId, spoken, stopSignalled,
                   ret, notice, waitCase, enqueued, preempted,
                   cleanupReturned, late, inflightAtCall, nowPending, nowMark,
                   nowText, waitSeen, faulted, repeated>>
    /\ UNCHANGED lvars
    /\ UNCHANGED bvars

\* line 91: text = self.speech_queue.get(timeout=1), an item is there.
\* line 93: text and self.engine hold for every item speak() lets through.
WorkerGet ==
    /\ wPc = "get"
    /\ speech_queue # <<>>
    /\ wText' = QueueHead(speech_queue)
    /\ speech_queue' = QueueRest(speech_queue)
    /\ wPc' = "flag"
    /\ UNCHANGED <<engine, is_speaking, stop_flag, mPc, mOp, mText, mWait,
                   mInner, nextId, spoken, stopSignalled, ret, notice,
                   waitCase, enqueued, preempted, cleanupReturned, late,
                   inflightAtCall, nowPending, nowMark, nowText, waitSeen,
                   faulted, repeated>>
    /\ UNCHANGED lvars
    /\ UNCHANGED bvars

\* lines 91, 105-106: the get times out on an empty queue, queue.Empty,
\* continue.
WorkerGetEmpty ==
    /\ wPc = "get"
    /\ speech_queue = <<>>
    /\ wPc' = "loop"
    /\ UNCHANGED <<engine, is_speaking, speech_queue, stop_flag, wText, mPc,
                   mOp, mText, mWait, mInner, nextId, spoken, stopSignalled,
                   ret, notice, waitCase, enqueued, preempted,
                   cleanupReturned, late, inflightAtCall, nowPending, nowMark,
                   nowText, waitSeen, faulted, repeated>>
    /\ UNCHANGED lvars
    /\ UNCHANGED bvars

\* line 94: self.is_speaking = True
WorkerSetSpeaking ==
    /\ wPc = "flag"
    /\ is_speaking' = TRUE
    /\ wPc' = "say"
    /\ UNCHANGED <<engine, speech_queue, stop_flag, wText, mPc, mOp, mText,
                   mWait, mInner, nextId, spoken, stopSignalled, ret, notice,
                   waitCase, enqueued, preempted, cleanupReturned, late,
                   inflightAtCall, nowPending, nowMark, nowText, waitSeen,
                   faulted, repeated>>
    /\ UNCHANGED lvars
    /\ UNCHANGED bvars

\* lines 97-98: engine.say(text); engine.runAndWait() begins: the device
\* receives the utter call.
WorkerUtter ==
    /\ wPc = "say"
    /\ spoken' = Append(spoken, wText)
    /\ wPc' = "run"
    /\ UNCHANGED <<engine, is_speaking, speech_queue, stop_flag, wText, mPc,
                   mOp, mText, mWait, mInner, nextId, stopSignalled, ret,
                   notice, waitCase, enqueued, preempted, cleanupReturned,
                   late, inflightAtCall, nowPending, nowMark, nowText,
                   waitSeen, faulted, repeated>>
    /\ UNCHANGED lvars
    /\ UNCHANGED bvars

\* line 98: runAndWait() returns (the audio ended or the engine was stopped).
WorkerUtterReturns ==
    /\ wPc = "run"
    /\ wPc' = "clear"
    /\ UNCHANGED <<engine, is_speaking, speech_queue, stop_flag, wText, mPc,
                   mOp, mText, mWait, mInner, nextId, spoken, stopSignalled,
                   ret, notice, waitCase, enqueued, preempted,
                   cleanupReturned, late, inflightAtCall, nowPending, nowMark,
                   nowText, waitSeen, faulted, repeated>>
    /\ UNCHANGED lvars
    /\ UNCHANGED bvars

\* line 98 raises: control goes to except Exception (line 107).
WorkerUtterFaults ==
    /\ wPc = "run"
    /\ wPc' = "except"
    /\ faulted' = TRUE
    /\ UNCHANGED <<engine, is_speaking, speech_queue, stop_flag, wText, mPc,
                   mOp, mText, mWait, mInner, nextId, spoken, stopSignalled,
                   ret, notice, waitCase, enqueued, preempted,
                   cleanupReturned, late, inflightAtCall, nowPending, nowMark,
                   nowText, waitSeen, repeated>>
    /\ UNCHANGED lvars
    /\ UNCHANGED bvars

\* lines 100-103: self.is_speaking = False; task_done(); next iteration.
\* (task_done only decrements the queue's unfinished-task count, which no
\* code reads: nothing calls Queue.join.)
WorkerClearSpeaking ==
    /\ wPc = "clear"
    /\ is_speaking' = FALSE
    /\ wPc' = "loop"
    /\ UNCHANGED <<engine, speech_queue, stop_flag, wText, mPc, mOp, mText,
                   mWait, mInner, nextId, spoken, stopSignalled, ret, notice,
                   waitCase, enqueued, preempted, cleanupReturned, late,
                   inflightAtCall, nowPending, nowMark, nowText, waitSeen,
                   faulted, repeated>>
    /\ UNCHANGED lvars
    /\ UNCHANGED bvars

\* A worker whose try statement encloses the loop: the fault handler runs
\* and the thread function returns.
WorkerExceptEnds ==
    /\ wPc = "except"
    /\ is_speaking' = FALSE
    /\ wPc' = "exited"
    /\ UNCHANGED <<engine, speech_queue, stop_flag, wText, mPc, mOp, mText,
                   mWait, mInner, nextId, spoken, stopSignalled, ret, notice,
                   waitCase, enqueued, preempted, cleanupReturned, late,
                   inflightAtCall, nowPending, nowMark, nowText, waitSeen,
                   faulted, repeated>>
    /\ UNCHANGED lvars
    /\ UNCHANGED bvars

\* lines 107-109: the fault is logged, self.is_speaking = False, next
\* iteration.
WorkerExcept ==
    /\ wPc = "except"
    /\ is_speaking' = FALSE
    /\ wPc' = "loop"
    /\ UNCHANGED <<engine, speech_queue, stop_flag, wText, mPc, mOp, mText,
                   mWait, mInner, nextId, spoken, stopSignalled, ret, notice,
                   waitCase, enqueued, preempted, cleanupReturned, late,
                   inflightAtCall, nowPending, nowMark, nowText, waitSeen,
                   faulted, repeated>>
    /\ UNCHANGED lvars
    /\ UNCHANGED bvars

Worker ==
    \/ WorkerLoop
    \/ WorkerGet
    \/ WorkerGetEmpty
    \/ WorkerSetSpeaking
    \/ WorkerUtter
    \/ WorkerUtterReturns
    \/ WorkerUtterFaults
    \/ WorkerClearSpeaking
    \/ WorkerExcept

----------------------------------------------------------------------------
\* VoiceSpeaker.speak(text, wait=False)

\* lines 119-136.  "not text" returns silently; "not self.engine" prints the
\* notice and returns; otherwise the text is put on the queue and, with
\* wait, wait_until_done() runs.  No branch returns a value.
\* speak without the "not self.engine" test.
SpeakRejectsEmptyOnly(text) == text = Empty

\* lines 119-124: the two early returns of speak.
SpeakRejects(text) == text = Empty \/ ~engine

CallSpeak(text, wait) ==
    /\ mPc = "idle"
    /\ mOp' = "speak"
    /\ repeated' = FALSE
    /\ mText' = text
    /\ nextId' = IF text = Empty THEN nextId ELSE nextId + 1
    /\ late' = IF cleanupReturned /\ text # Empty
               THEN late \cup {text} ELSE late
    /\ waitCase' = "none"
    /\ IF SpeakRejects(text)
       THEN /\ ret' = "None"
            /\ notice' = (text # Empty)
            /\ UNCHANGED <<speech_queue, enqueued, mPc, mWait, mInner>>
       ELSE /\ speech_queue' = Append(speech_queue, text)
            /\ enqueued' = Append(enqueued, text)
            /\ notice' = FALSE
            /\ IF wait
               THEN /\ mPc' = "wait_a"
                    /\ mInner' = "wait_until_done"
                    /\ mWait' = TRUE
                    /\ ret' = "none"
               ELSE /\ ret' = "None"
                    /\ UNCHANGED <<mPc, mWait, mInner>>
    /\ UNCHANGED <<engine, is_speaking, stop_flag, wPc, wText, spoken,
                   stopSignalled, preempted, cleanupReturned, inflightAtCall,
                   nowPending, nowMark, nowText, waitSeen, faulted>>
    /\ UNCHANGED lvars
    /\ UNCHANGED bvars

----------------------------------------------------------------------------
\* VoiceSpeaker.speak_immediately(text)

\* lines 148-151: "not text or not self.engine" returns, printing the notice
\* when there is no engine.  Otherwise the call goes on to clear the queue.
CallSpeakImmediately(text) ==
    /\ mPc = "idle"
    /\ mOp' = "speak_immediately"
    /\ repeated' = FALSE
    /\ mText' = text
    /\ nextId' = IF text = Empty THEN nextId ELSE nextId + 1
    /\ waitCase' = "none"
    /\ IF text = Empty \/ ~engine
       THEN /\ ret' = "None"
            /\ notice' = ~engine
            /\ UNCHANGED <<mPc, preempted, stopSignalled, inflightAtCall,
                           nowPending, nowMark, nowText>>
       ELSE /\ mPc' = "now_clear"
            /\ ret' = "none"
            /\ notice' = FALSE
            /\ preempted' = TRUE
            /\ stopSignalled' = FALSE
            /\ inflightAtCall' = InFlight
            /\ nowPending' = IF InFlight THEN {} ELSE SeqToSet(speech_queue)
            /\ nowMark' = IF InFlight THEN -1 ELSE Len(spoken)
            /\ nowText' = text
    /\ UNCHANGED <<engine, is_speaking, speech_queue, stop_flag, wPc, wText,
                   mWait, mInner, spoken, enqueued, cleanupReturned, late,
                   waitSeen, faulted>>
    /\ UNCHANGED lvars
    /\ UNCHANGED bvars

\* lines 155-160 and 197-202: one iteration of
\*   while not self.speech_queue.empty(): get_nowait(); task_done()
\* that finds an item and discards it.
ClearOne ==
    /\ mPc \in {"now_clear", "stop_clear"}
    /\ speech_queue # <<>>
    /\ speech_queue' = QueueRest(speech_queue)
    /\ UNCHANGED <<engine, is_speaking, stop_flag, wPc, wText, mPc, mOp,
                   mText, mWait, mInner, nextId, spoken, stopSignalled, ret,
                   notice, waitCase, enqueued, preempted, cleanupReturned,
                   late, inflightAtCall, nowPending, nowMark, nowText,
                   waitSeen, faulted, repeated>>
    /\ UNCHANGED lvars
    /\ UNCHANGED bvars

\* The clearing loop ends: empty() is true (or get_nowait raised queue.Empty
\* because the worker took the last item in between).
ClearDone ==
    /\ mPc \in {"now_clear", "stop_clear"}
    /\ speech_queue = <<>>
    /\ mPc' = IF mPc = "now_clear" THEN "now_flag" ELSE "stop_engine"
    /\ UNCHANGED <<engine, is_speaking, speech_queue, stop_flag, wPc, wText,
                   mOp, mText, mWait, mInner, nextId, spoken, stopSignalled,
                   ret, notice, waitCase, enqueued, preempted,
                   cleanupReturned, late, inflightAtCall, nowPending, nowMark,
                   nowText, waitSeen, faulted, repeated>>
    /\ UNCHANGED lvars
    /\ UNCHANGED bvars

\* line 163: self.is_speaking = True
NowSetSpeaking ==
    /\ mPc = "now_flag"
    /\ is_speaking' = TRUE
    /\ mPc' = "now_say"
    /\ UNCHANGED <<engine, speech_queue, stop_flag, wPc, wText, mOp, mText,
                   mWait, mInner, nextId, spoken, stopSignalled, ret, notice,
                   waitCase, enqueued, preempted, cleanupReturned, late,
                   inflightAtCall, nowPending, nowMark, nowText, waitSeen,
                   faulted, repeated>>
    /\ UNCHANGED lvars
    /\ UNCHANGED bvars

\* lines 166-167: engine.say(text); engine.runAndWait() begins on the
\* caller's thread.
NowUtter ==
    /\ mPc = "now_say"
    /\ spoken' = Append(spoken, mText)
    /\ mPc' = "now_run"
    /\ UNCHANGED <<engine, is_speaking, speech_queue, stop_flag, wPc, wText,
                   mOp, mText, mWait, mInner, nextId, stopSignalled, ret,
                   notice, waitCase, enqueued, preempted, cleanupReturned,
                   late, inflightAtCall, nowPending, nowMark, nowText,
                   waitSeen, faulted, repeated>>
    /\ UNCHANGED lvars
    /\ UNCHANGED bvars

\* line 167 returns, or raises into except Exception (line 172): either way
\* the next statement is self.is_speaking = False.
NowUtterEnds ==
    /\ mPc = "now_run"
    /\ mPc' = "now_unflag"
    /\ UNCHANGED <<engine, is_speaking, speech_queue, stop_flag, wPc, wText,
                   mOp, mText, mWait, mInner, nextId, spoken, stopSignalled,
                   ret, notice, waitCase, enqueued, preempted,
                   cleanupReturned, late, inflightAtCall, nowPending, nowMark,
                   nowText, waitSeen, faulted, repeated>>
    /\ UNCHANGED lvars
    /\ UNCHANGED bvars

\* line 169 (or 174): self.is_speaking = False, and the call returns.
NowClearSpeaking ==
    /\ mPc = "now_unflag"
    /\ is_speaking' = FALSE
    /\ mPc' = "idle"
    /\ ret' = "None"
    /\ UNCHANGED <<engine, speech_queue, stop_flag, wPc, wText, mOp, mText,
                   mWait, mInner, nextId, spoken, stopSignalled, notice,
                   waitCase, enqueued, preempted, cleanupReturned, late,
                   inflightAtCall, nowPending, nowMark, nowText, waitSeen,
                   faulted, repeated>>
    /\ UNCHANGED lvars
    /\ UNCHANGED bvars

----------------------------------------------------------------------------
\* VoiceSpeaker.wait_until_done(timeout=30)

\* Called directly.  Without an engine self.is_speaking was never created:
\* the first read raises AttributeError to the caller.
CallWaitUntilDone ==
    /\ mPc = "idle"
    /\ mOp' = "wait_until_done"
    /\ repeated' = FALSE
    /\ mText' = Empty
    /\ notice' = FALSE
    /\ waitCase' = "none"
    /\ IF engine
       THEN /\ mPc' = "wait_a"
            /\ ret' = "none"
       ELSE /\ ret' = "raised"
            /\ UNCHANGED mPc
    /\ UNCHANGED <<engine, is_speaking, speech_queue, stop_flag, wPc, wText,
                   mWait, mInner, nextId, spoken, stopSignalled, enqueued,
                   preempted, cleanupReturned, late, inflightAtCall,
                   nowPending, nowMark, nowText, waitSeen, faulted>>
    /\ UNCHANGED lvars
    /\ UNCHANGED bvars

\* The function has no return statement: however the loop of line 185 ends,
\* the call returns None.
WaitReturns(case) ==
    /\ mPc' = "idle"
    /\ ret' = "None"
    /\ waitCase' = case
    /\ waitSeen' = [waitSeen EXCEPT ![case] = @ \cup {"None"}]
    /\ mWait' = FALSE
    /\ mInner' = "none"

\* The queue test of line 185 with its "not" dropped.
WaitQueueBusyInverted(q) == q = <<>>

\* line 185: not self.speech_queue.empty()
WaitQueueBusy(q) == q # <<>>

\* line 185, first operand of
\*   (is_speaking or not queue.empty()) and time.time() - start < timeout
\* self.is_speaking is read.  When it is true the "or" is decided and the
\* elapsed time is compared with the timeout: the loop sleeps (line 186) or
\* ends.  When it is false the queue is read next.
WaitReadSpeaking ==
    /\ mPc = "wait_a"
    /\ IF is_speaking
       THEN \E expired \in BOOLEAN :
              IF expired
              THEN WaitReturns("timeout")
              ELSE UNCHANGED <<mPc, mWait, mInner, ret, waitCase, waitSeen>>
       ELSE /\ mPc' = "wait_b"
            /\ UNCHANGED <<mWait, mInner, ret, waitCase, waitSeen>>
    /\ UNCHANGED <<engine, is_speaking, speech_queue, stop_flag, wPc, wText,
                   mOp, mText, nextId, spoken, stopSignalled, notice,
                   enqueued, preempted, cleanupReturned, late, inflightAtCall,
                   nowPending, nowMark, nowText, faulted, repeated>>
    /\ UNCHANGED lvars
    /\ UNCHANGED bvars

\* line 185, second operand: self.speech_queue.empty() is read after
\* is_speaking was read false.  A queue that is not empty sends the loop to
\* the time comparison; an empty one ends it without looking at the time.
WaitReadQueue ==
    /\ mPc = "wait_b"
    /\ IF WaitQueueBusy(speech_queue)
       THEN \E expired \in BOOLEAN :
              IF expired
              THEN WaitReturns("timeout")
              ELSE /\ mPc' = "wait_a"
                   /\ UNCHANGED <<mWait, mInner, ret, waitCase, waitSeen>>
       ELSE WaitReturns("idle")
    /\ UNCHANGED <<engine, is_speaking, speech_queue, stop_flag, wPc, wText,
                   mOp, mText, nextId, spoken, stopSignalled, notice,
                   enqueued, preempted, cleanupReturned, late, inflightAtCall,
                   nowPending, nowMark, nowText, faulted, repeated>>
    /\ UNCHANGED lvars
    /\ UNCHANGED bvars

----------------------------------------------------------------------------
\* VoiceSpeaker.stop_all_speech()

\* Called directly.  Without an engine self.speech_queue was never created:
\* the AttributeError is caught by except Exception (line 211) and logged.
CallStopAll ==
    /\ mPc = "idle"
    /\ mOp' = "stop_all_speech"
    /\ repeated' = (mOp = "stop_all_speech")
    /\ mText' = Empty
    /\ notice' = FALSE
    /\ waitCase' = "none"
    /\ IF engine
       THEN /\ mPc' = "stop_clear"
            /\ ret' = "none"
            /\ preempted' = TRUE
            /\ stopSignalled' = FALSE
            /\ inflightAtCall' = InFlight
       ELSE /\ ret' = "None"
            /\ UNCHANGED <<mPc, preempted, stopSignalled, inflightAtCall>>
    /\ UNCHANGED <<engine, is_speaking, speech_queue, stop_flag, wPc, wText,
                   mWait, mInner, nextId, spoken, enqueued, cleanupReturned,
                   late, nowPending, nowMark, nowText, waitSeen, faulted>>
    /\ UNCHANGED lvars
    /\ UNCHANGED bvars

\* stop_all_speech with the engine.stop() call left out.
StopEngineSkipped ==
    /\ mPc = "stop_engine"
    /\ stopSignalled' = FALSE
    /\ mPc' = "stop_unflag"
    /\ UNCHANGED <<engine, is_speaking, speech_queue, stop_flag, wPc, wText,
                   mOp, mText, mWait, mInner, nextId, spoken, ret, notice,
                   waitCase, enqueued, preempted, cleanupReturned, late,
                   inflightAtCall, nowPending, nowMark, nowText, waitSeen,
                   faulted, repeated>>
    /\ UNCHANGED lvars
    /\ UNCHANGED bvars

\* lines 205-206: if self.engine: self.engine.stop()
StopEngine ==
    /\ mPc = "stop_engine"
    /\ stopSignalled' = engine
    /\ mPc' = "stop_unflag"
    /\ UNCHANGED <<engine, is_speaking, speech_queue, stop_flag, wPc, wText,
                   mOp, mText, mWait, mInner, nextId, spoken, ret, notice,
                   waitCase, enqueued, preempted, cleanupReturned, late,
                   inflightAtCall, nowPending, nowMark, nowText, waitSeen,
                   faulted, repeated>>
    /\ UNCHANGED lvars
    /\ UNCHANGED bvars

\* stop_all_speech ending with self.is_speaking = not self.is_speaking.
StopFlipsSpeaking ==
    /\ mPc = "stop_unflag"
    /\ is_speaking' = ~is_speaking
    /\ IF mOp = "cleanup"
       THEN /\ mPc' = "join"
            /\ mInner' = "none"
            /\ UNCHANGED ret
       ELSE /\ mPc' = "idle"
            /\ ret' = "None"
            /\ UNCHANGED mInner
    /\ UNCHANGED <<engine, speech_queue, stop_flag, wPc, wText, mOp, mText,
                   mWait, nextId, spoken, stopSignalled, notice, waitCase,
                   enqueued, preempted, cleanupReturned, late, inflightAtCall,
                   nowPending, nowMark, nowText, waitSeen, faulted, repeated>>
    /\ UNCHANGED lvars
    /\ UNCHANGED bvars

\* line 208: self.is_speaking = False, the last shared access of
\* stop_all_speech; the call returns (to cleanup, line 224, when nested).
StopClearSpeaking ==
    /\ mPc = "stop_unflag"
    /\ is_speaking' = FALSE
    /\ IF mOp = "cleanup"
       THEN /\ mPc' = "join"
            /\ mInner' = "none"
            /\ UNCHANGED ret
       ELSE /\ mPc' = "idle"
            /\ ret' = "None"
            /\ UNCHANGED mInner
    /\ UNCHANGED <<engine, speech_queue, stop_flag, wPc, wText, mOp, mText,
                   mWait, nextId, spoken, stopSignalled, notice, waitCase,
                   enqueued, preempted, cleanupReturned, late, inflightAtCall,
                   nowPending, nowMark, nowText, waitSeen, faulted, repeated>>
    /\ UNCHANGED lvars
    /\ UNCHANGED bvars

----------------------------------------------------------------------------
\* VoiceSpeaker.cleanup()

\* cleanup() with stop_flag toggled instead of set.
CallCleanupFlips ==
    /\ mPc = "idle"
    /\ mOp' = "cleanup"
    /\ repeated' = (mOp = "cleanup")
    /\ mText' = Empty
    /\ notice' = FALSE
    /\ waitCase' = "none"
    /\ IF engine
       THEN /\ stop_flag' = ~stop_flag
            /\ mPc' = "stop_clear"
            /\ mInner' = "stop_all_speech"
            /\ ret' = "none"
            /\ preempted' = TRUE
            /\ stopSignalled' = FALSE
            /\ inflightAtCall' = InFlight
       ELSE /\ ret' = "raised"
            /\ UNCHANGED <<stop_flag, mPc, mInner, preempted, stopSignalled,
                           inflightAtCall>>
    /\ UNCHANGED <<engine, is_speaking, speech_queue, wPc, wText, mWait,
                   nextId, spoken, enqueued, cleanupReturned, late,
                   nowPending, nowMark, nowText, waitSeen, faulted>>
    /\ UNCHANGED lvars
    /\ UNCHANGED bvars

\* line 221: self.stop_flag.set(); line 222 enters stop_all_speech.  Without
\* an engine self.stop_flag was never created: AttributeError, not caught.
CallCleanup ==
    /\ mPc = "idle"
    /\ mOp' = "cleanup"
    /\ repeated' = (mOp = "cleanup")
    /\ mText' = Empty
    /\ notice' = FALSE
    /\ waitCase' = "none"
    /\ IF engine
       THEN /\ stop_flag' = TRUE
            /\ mPc' = "stop_clear"
            /\ mInner' = "stop_all_speech"
            /\ ret' = "none"
            /\ preempted' = TRUE
            /\ stopSignalled' = FALSE
            /\ inflightAtCall' = InFlight
       ELSE /\ ret' = "raised"
            /\ UNCHANGED <<stop_flag, mPc, mInner, preempted, stopSignalled,
                           inflightAtCall>>
    /\ UNCHANGED <<engine, is_speaking, speech_queue, wPc, wText, mWait,
                   nextId, spoken, enqueued, cleanupReturned, late,
                   nowPending, nowMark, nowText, waitSeen, faulted>>
    /\ UNCHANGED lvars
    /\ UNCHANGED bvars

\* lines 224-225: the worker thread has ended: is_alive() is false, or
\* join returns because the thread ended.
CleanupJoined ==
    /\ mPc = "join"
    /\ wPc = "exited"
    /\ mPc' = "idle"
    /\ ret' = "None"
    /\ cleanupReturned' = TRUE
    /\ UNCHANGED <<engine, is_speaking, speech_queue, stop_flag, wPc, wText,
                   mOp, mText, mWait, mInner, nextId, spoken, stopSignalled,
                   notice, waitCase, enqueued, preempted, late,
                   inflightAtCall, nowPending, nowMark, nowText, waitSeen,
                   faulted, repeated>>
    /\ UNCHANGED lvars
    /\ UNCHANGED bvars

\* join without a timeout: the caller stays in join while the worker thread
\* is alive.
CleanupJoinWaits ==
    /\ mPc = "join"
    /\ wPc # "exited"
    /\ UNCHANGED vars

\* line 225: join(timeout=2) gives up while the worker thread is still
\* alive; cleanup returns all the same.
CleanupJoinTimeout ==
    /\ mPc = "join"
    /\ wPc # "exited"
    /\ mPc' = "idle"
    /\ ret' = "None"
    /\ cleanupReturned' = TRUE
    /\ UNCHANGED <<engine, is_speaking, speech_queue, stop_flag, wPc, wText,
                   mOp, mText, mWait, mInner, nextId, spoken, stopSignalled,
                   notice, waitCase, enqueued, preempted, late,
                   inflightAtCall, nowPending, nowMark, nowText, waitSeen,
                   faulted, repeated>>
    /\ UNCHANGED lvars
    /\ UNCHANGED bvars

----------------------------------------------------------------------------
\* Strings of the listening loop are sequences of characters.

UpperCase == <<"A", "B", "C", "D", "E", "F", "G", "H", "I", "J", "K", "L", "M",
               "N", "O", "P", "Q", "R", "S", "T", "U", "V", "W", "X", "Y", "Z">>
LowerCase == <<"a", "b", "c", "d", "e", "f", "g", "h", "i", "j", "k", "l", "m",
               "n", "o", "p", "q", "r", "s", "t", "u", "v", "w", "x", "y", "z">>

LowerChar(c) ==
    IF \E i \in 1..Len(UpperCase) : UpperCase[i] = c
    THEN LowerCase[CHOOSE i \in 1..Len(UpperCase) : UpperCase[i] = c]
    ELSE c

\* str.lower()
Lower(str) == [i \in 1..Len(str) |-> LowerChar(str[i])]

\* Python's "sub in str" on strings.
IsSubstring(sub, str) ==
    \E k \in 0..(Len(str) - Len(sub)) :
        \A i \in 1..Len(sub) : str[k + i] = sub[i]

\* listen.py line 89: the default when exit_phrases is None.
DefaultExitPhrases ==
    { <<"e", "x", "i", "t">>,
      <<"c", "l", "o", "s", "e">>,
      <<"f", "i", "n", "i", "s", "h">>,
      <<"s", "t", "o", "p">>,
      <<"q", "u", "i", "t">> }

\* main.py line 159: the list VoiceConversationBot.run passes.
MainExitPhrases ==
    { <<"e", "x", "i", "t">>,
      <<"c", "l", "o", "s", "e">>,
      <<"f", "i", "n", "i", "s", "h">>,
      <<"s", "t", "o", "p">>,
      <<"q", "u", "i", "t">>,
      <<"b", "y", "e">> }

PhraseSets == {DefaultExitPhrases, MainExitPhrases}

\* listen.py line 77: exit_phrases is a parameter; a caller may pass any
\* list, such as ['Exit', 'Goodbye'].
CustomExitPhrases ==
    { <<"E", "x", "i", "t">>,
      <<"G", "o", "o", "d", "b", "y", "e">> }

ConfiguredPhraseSets == PhraseSets \cup {CustomExitPhrases}

\* Texts the recognizer returns (recognize_google, line 58).
RecognizedTexts ==
    { <<"h", "i">>,
      <<"w", "h", "a", "t", "'", "s", " ",
        "t", "h", "e", " ", "w", "e", "a", "t", "h", "e", "r">>,
      <<"E", "x", "i", "t">>,
      <<"p", "l", "e", "a", "s", "e", " ", "e", "x", "i", "t">>,
      <<"G", "o", "o", "d", "b", "y", "e">>,
      <<"Q", "U", "I", "T", " ", "n", "o", "w">> }

\* What one listen_once call meets: a recognized text, WaitTimeoutError,
\* UnknownValueError or RequestError.
Outcomes ==
    [kind : {"text"}, text : RecognizedTexts]
    \cup [kind : {"TimedOut", "Unrecognized", "ServiceFault"}, text : {<<>>}]

\* main.py line 113
Apology == "Sorry, an error occurred. Please try again."

\* get_response returns None (chat.py line 94)
NoResponse == "<None>"
Unset == "<unset>"

\* What VoiceChatBot.get_response returns: None on any API error, else the
\* stripped reply, which may be the empty string.
Responses == {NoResponse, "", "Sure."}

----------------------------------------------------------------------------
\* VoiceListener.continuous_listen and VoiceConversationBot.handle_user_speech

InitListener ==
    /\ exit_phrases \in ConfiguredPhraseSets
    /\ lPc = "listen"
    /\ lEnd = "none"
    /\ outcomes = <<>>
    /\ recognized_text = <<>>
    /\ handled = <<>>
    /\ bot_response = Unset
    /\ callLog = <<>>
    /\ callbackRaised = FALSE

\* listen_once, lines 44-75: the recognized text is returned; every failure
\* is caught and None is returned.
ListenOnce(o) ==
    /\ lPc = "listen"
    /\ Len(outcomes) < MaxOutcomes
    /\ outcomes' = Append(outcomes, o)
    /\ recognized_text' = IF o.kind = "text" THEN o.text ELSE <<>>
    /\ bot_response' = Unset
    /\ callLog' = <<>>
    /\ lPc' = "check"
    /\ UNCHANGED <<exit_phrases, lEnd, handled, callbackRaised>>
    /\ UNCHANGED dvars
    /\ UNCHANGED bvars

\* The exit test of line 101 without .lower().
ExitCommandDetectedNoLower(text) ==
    \E exit_phrase \in exit_phrases : IsSubstring(exit_phrase, text)

\* line 101: any(exit_phrase in recognized_text.lower() for ...)
ExitCommandDetected(text) ==
    \E exit_phrase \in exit_phrases : IsSubstring(exit_phrase, Lower(text))

\* lines 99-107: a falsy recognized_text goes to the pause; an exit command
\* breaks out of the loop; any other text goes to the callback.
CheckExit ==
    /\ lPc = "check"
    /\ IF recognized_text = <<>>
       THEN /\ lPc' = "sleep"
            /\ UNCHANGED lEnd
       ELSE IF ExitCommandDetected(recognized_text)
            THEN /\ lPc' = "terminated"
                 /\ lEnd' = "exit"
            ELSE /\ lPc' = "callback"
                 /\ UNCHANGED lEnd
    /\ UNCHANGED <<exit_phrases, outcomes, recognized_text, handled,
                   bot_response, callLog, callbackRaised>>
    /\ UNCHANGED dvars
    /\ UNCHANGED bvars

\* line 107 calls on_speech_callback(recognized_text), which is
\* handle_user_speech (main.py line 158); lines 103-107 of main.py:
\* bot_response = self.chatbot.get_response(user_text), and the text to speak
\* is the response, or the apology when the response is falsy.
HandleUserSpeech(response) ==
    /\ lPc = "callback"
    /\ handled' = Append(handled, recognized_text)
    /\ bot_response' = response
    /\ lPc' = "speak_text"
    /\ UNCHANGED <<exit_phrases, lEnd, outcomes, recognized_text, callLog,
                   callbackRaised>>
    /\ UNCHANGED dvars
    /\ UNCHANGED bvars

\* The text handle_user_speech speaks (main.py lines 107-115).
TextToSpeak ==
    IF bot_response \in {NoResponse, ""} THEN Apology ELSE bot_response

\* greet.speak_text (greet.py lines 71-104), called at main.py lines 110 and
\* 115: the text goes to a PowerShell SpeechSynthesizer subprocess; when
\* that fails or times out, _fallback_tts creates a pyttsx3 engine of its
\* own, if it can, and says the text on it.  No exception leaves speak_text.
SpeakText(route) ==
    /\ lPc = "speak_text"
    /\ callLog' =
         CASE route = "powershell" ->
                <<[by |-> "powershell", text |-> TextToSpeak]>>
           [] route = "fallback" ->
                <<[by |-> "powershell", text |-> TextToSpeak],
                  [by |-> "pyttsx3.init", text |-> TextToSpeak]>>
           [] route = "silent" ->
                <<[by |-> "powershell", text |-> TextToSpeak]>>
    /\ lPc' = "sleep"
    /\ UNCHANGED <<exit_phrases, lEnd, outcomes, recognized_text, handled,
                   bot_response, callbackRaised>>
    /\ UNCHANGED dvars
    /\ UNCHANGED bvars

\* A loop without the except Exception clause of line 115: the exception of
\* the callback leaves continuous_listen.
CallbackRaisesEnds ==
    /\ lPc = "callback"
    /\ handled' = Append(handled, recognized_text)
    /\ lPc' = "terminated"
    /\ lEnd' = "fault"
    /\ callbackRaised' = TRUE
    /\ UNCHANGED <<exit_phrases, outcomes, recognized_text, bot_response,
                   callLog>>
    /\ UNCHANGED dvars
    /\ UNCHANGED bvars

\* lines 115-118: a callback that raises an Exception is logged, the loop
\* pauses one second and goes on.
CallbackRaises ==
    /\ lPc = "callback"
    /\ handled' = Append(handled, recognized_text)
    /\ lPc' = "sleep"
    /\ callbackRaised' = TRUE
    /\ UNCHANGED <<exit_phrases, lEnd, outcomes, recognized_text,
                   bot_response, callLog>>
    /\ UNCHANGED dvars
    /\ UNCHANGED bvars

\* lines 110 and 118: time.sleep, then the next iteration.
Sleep ==
    /\ lPc = "sleep"
    /\ lPc' = "listen"
    /\ UNCHANGED <<exit_phrases, lEnd, outcomes, recognized_text, handled,
                   bot_response, callLog, callbackRaised>>
    /\ UNCHANGED dvars
    /\ UNCHANGED bvars

\* lines 112-114: KeyboardInterrupt anywhere in the loop body ends the loop.
Interrupt ==
    /\ lPc # "terminated"
    /\ lPc' = "terminated"
    /\ lEnd' = "interrupt"
    /\ UNCHANGED <<exit_phrases, outcomes, recognized_text, handled,
                   bot_response, callLog, callbackRaised>>
    /\ UNCHANGED dvars
    /\ UNCHANGED bvars

ListenLoop ==
    \/ \E o \in Outcomes : ListenOnce(o)
    \/ CheckExit
    \/ \E response \in Responses : HandleUserSpeech(response)
    \/ \E route \in {"powershell", "fallback", "silent"} : SpeakText(route)
    \/ CallbackRaises
    \/ Sleep
    \/ Interrupt

----------------------------------------------------------------------------
\* The caller thread: any public method, with any argument.

TextArgs == {Empty} \cup (IF nextId <= MaxReq THEN {nextId} ELSE {})

Caller ==
    \/ \E text \in TextArgs, wait \in BOOLEAN : CallSpeak(text, wait)
    \/ \E text \in TextArgs : CallSpeakImmediately(text)
    \/ ClearOne
    \/ ClearDone
    \/ NowSetSpeaking
    \/ NowUtter
    \/ NowUtterEnds
    \/ NowClearSpeaking
    \/ CallWaitUntilDone
    \/ WaitReadSpeaking
    \/ WaitReadQueue
    \/ CallStopAll
    \/ StopEngine
    \/ StopClearSpeaking
    \/ CallCleanup
    \/ CleanupJoined
    \/ CleanupJoinTimeout

----------------------------------------------------------------------------
\* VoiceConversationBot (main.py): run, shutdown, signal_handler and the exit
\* of the process.

\* greet.py line 49
GreetingMessage ==
    "Hello! Welcome to your voice assistant bot. I'm ready to talk with you."

\* __init__, lines 41-48: the components are None, is_running is False and
\* signal_handler is installed for SIGINT and SIGTERM.
InitBot ==
    /\ bPc = "init"
    /\ is_running = FALSE
    /\ speaker = FALSE
    /\ signalled = "none"
    /\ cleanupCalls = 0
    /\ exit_status = -1

\* A signal handler that leaves with status 1.
ExitStatusSignalOne(cause) == IF cause = "signal" THEN 1 ELSE 0

\* The exit status of the process: signal_handler ends with sys.exit(0)
\* (line 60); when run returns, main returns and the interpreter exits with
\* status 0.
ExitStatus(cause) ==
    CASE cause = "signal" -> 0
      [] cause = "return" -> 0

\* lines 135-137 and 62-90: the listener, the chatbot and the speaker are
\* constructed in this order; when the listener or the chatbot raises,
\* initialize_components returns False with self.speaker still None and run
\* returns through its finally clause.  VoiceSpeaker() itself never raises.
InitializeComponents(ok) ==
    /\ bPc = "init"
    /\ speaker' = ok
    /\ bPc' = IF ok THEN "greet" ELSE "finally"
    /\ UNCHANGED <<is_running, signalled, cleanupCalls, exit_status>>
    /\ UNCHANGED dvars
    /\ UNCHANGED lvars

\* line 141, greet.py lines 34-59: greet_user creates a pyttsx3 engine of its
\* own (init_tts_engine) and says the greeting on it; when that engine cannot
\* be created the greeting is only printed.
GreetUser(ok) ==
    /\ bPc = "greet"
    /\ callLog' = IF ok
                  THEN <<[by |-> "pyttsx3.init", text |-> GreetingMessage]>>
                  ELSE <<>>
    /\ bPc' = "pause"
    /\ UNCHANGED <<exit_phrases, lPc, lEnd, outcomes, recognized_text,
                   handled, bot_response, callbackRaised>>
    /\ UNCHANGED dvars
    /\ UNCHANGED <<is_running, speaker, signalled, cleanupCalls, exit_status>>

\* lines 144-154: time.sleep(2), the tips, then self.is_running = True.
StartListening ==
    /\ bPc = "pause"
    /\ is_running' = TRUE
    /\ bPc' = "listening"
    /\ UNCHANGED <<speaker, signalled, cleanupCalls, exit_status>>
    /\ UNCHANGED dvars
    /\ UNCHANGED lvars

\* lines 157-160: continuous_listen runs with handle_user_speech as its
\* callback.  SIGINT is handled by signal_handler, so no KeyboardInterrupt
\* is raised in the loop.
BotListen ==
    /\ bPc = "listening"
    /\ \/ \E o \in Outcomes : ListenOnce(o)
       \/ CheckExit
       \/ \E response \in Responses : HandleUserSpeech(response)
       \/ \E route \in {"powershell", "fallback", "silent"} : SpeakText(route)
       \/ CallbackRaises
       \/ Sleep

\* continuous_listen returns and run enters its finally clause (line 167).
ListenReturns ==
    /\ bPc = "listening"
    /\ lPc = "terminated"
    /\ bPc' = "finally"
    /\ UNCHANGED <<is_running, speaker, signalled, cleanupCalls, exit_status>>
    /\ UNCHANGED dvars
    /\ UNCHANGED lvars

\* speaker.cleanup() as one call on the main thread (speak.py lines 214-225
\* with stop_all_speech): the flag is set, the queue emptied, the engine
\* stopped, is_speaking cleared, and the join ends with the worker thread
\* ended or still alive.  Without an engine the call raises AttributeError.
SpeakerCleanup ==
    /\ mOp' = "cleanup"
    /\ repeated' = FALSE
    /\ IF engine
       THEN /\ stop_flag' = TRUE
            /\ speech_queue' = <<>>
            /\ stopSignalled' = TRUE
            /\ is_speaking' = FALSE
            /\ wPc' \in {wPc, "exited"}
            /\ preempted' = TRUE
            /\ cleanupReturned' = TRUE
            /\ ret' = "None"
       ELSE /\ ret' = "raised"
            /\ UNCHANGED <<stop_flag, speech_queue, stopSignalled,
                           is_speaking, wPc, preempted, cleanupReturned>>
    /\ UNCHANGED <<engine, wText, mPc, mText, mWait, mInner, nextId, spoken,
                   notice, waitCase, enqueued, late, inflightAtCall,
                   nowPending, nowMark, nowText, waitSeen, faulted>>

\* shutdown, lines 177-196: nothing happens unless is_running is true; then
\* is_running is cleared and, when self.speaker is set, speaker.cleanup() is
\* called; an exception of cleanup is caught (line 193).
Shutdown ==
    IF is_running
    THEN /\ is_running' = FALSE
         /\ IF speaker
            THEN /\ cleanupCalls' = cleanupCalls + 1
                 /\ SpeakerCleanup
            ELSE UNCHANGED <<cleanupCalls, dvars>>
    ELSE UNCHANGED <<is_running, cleanupCalls, dvars>>

\* lines 167-168, then main returns: the finally clause of run calls
\* shutdown and the process ends.
RunFinally ==
    /\ bPc = "finally"
    /\ Shutdown
    /\ bPc' = "exited"
    /\ exit_status' = ExitStatus("return")
    /\ UNCHANGED <<speaker, signalled>>
    /\ UNCHANGED lvars

\* signal_handler, lines 58-60, on SIGINT or SIGTERM at any point of run:
\* shutdown(), then sys.exit(0).  SystemExit is caught by no except clause
\* of continuous_listen, run or main; the finally clause of run calls
\* shutdown once more, which finds is_running false, and the process ends.
SignalHandler ==
    /\ bPc \in {"init", "greet", "pause", "listening", "finally"}
    /\ signalled' = bPc
    /\ Shutdown
    /\ bPc' = "exited"
    /\ exit_status' = ExitStatus("signal")
    /\ UNCHANGED speaker
    /\ UNCHANGED lvars

----------------------------------------------------------------------------
\* The dispatcher with its two threads; the bot's listening loop has not
\* started.

Init ==
    InitSpeaker /\ InitListener /\ exit_phrases = MainExitPhrases /\ InitBot

Next == Worker \/ Caller

Spec == Init /\ [][Next]_vars

\* The steps of the caller thread inside cleanup(), stop_all_speech included.
CleanupStep ==
    /\ mOp = "cleanup"
    /\ \/ ClearOne
       \/ ClearDone
       \/ StopEngine
       \/ StopClearSpeaking
       \/ CleanupJoined
       \/ CleanupJoinTimeout

\* The same two threads with the worker thread scheduled fairly: while the
\* worker has a step to take it takes one in the end, so that an utter call
\* returns or raises.  Nothing is assumed of the caller.
FairSpec == Spec /\ WF_vars(Worker)

\* The listening loop with its handler, run with either list of exit
\* phrases; the handler leaves the dispatcher alone.

InitListen ==
    /\ InitSpeaker /\ engine
    /\ InitListener /\ exit_phrases \in PhraseSets
    /\ InitBot

NextListen == ListenLoop

SpecListen == InitListen /\ [][NextListen]_vars

\* The listening loop run with any configured list of exit phrases.

InitConfigured == InitSpeaker /\ engine /\ InitListener /\ InitBot

SpecConfigured == InitConfigured /\ [][NextListen]_vars

\* The whole program: run from its start to the exit of the process, with a
\* termination signal arriving at any point.

NextBot ==
    \/ \E ok \in BOOLEAN : InitializeComponents(ok)
    \/ \E ok \in BOOLEAN : GreetUser(ok)
    \/ StartListening
    \/ BotListen
    \/ ListenReturns
    \/ RunFinally
    \/ SignalHandler

SpecBot == Init /\ [][NextBot]_vars

----------------------------------------------------------------------------
\* Properties of the dispatcher

\* The request the worker has taken off the queue and not yet handed to the
\* device.
WorkerHolds == IF wPc \in {"flag", "say"} THEN <<wText>> ELSE <<>>

\* C1: at most one utterance is in flight at the device: the worker and a
\* speak_immediately caller are never both between the start and the return
\* of a device utter call.
C1_OneUtteranceInFlight == ~(WorkerInFlight /\ CallerInFlight)

\* C2: while only speak has been called (no speak_immediately,
\* stop_all_speech or cleanup) on a dispatcher whose engine initialised, the
\* utter calls the device has received, then the request the worker holds,
\* then the queue, are exactly the texts put by speak, in call order: the
\* device log is always a prefix of the enqueued texts, nothing is lost,
\* duplicated or reordered.
C2_FifoOrder ==
    (engine /\ ~preempted) => spoken \o WorkerHolds \o speech_queue = enqueued

\* C2 witness: MaxReq texts were enqueued and all of them uttered, with no
\* preemption.
C2_Witness ==
    /\ engine
    /\ ~preempted
    /\ Len(enqueued) = MaxReq
    /\ spoken = enqueued

\* C3: when speak_immediately(x) was called with requests pending and no
\* utterance in flight, the next utter call the device receives is x, and no
\* request that was pending at the call is uttered afterwards.
C3_PreemptionWins ==
    (nowMark >= 0 /\ nowPending # {}) =>
        /\ Len(spoken) > nowMark => spoken[nowMark + 1] = nowText
        /\ \A i \in (nowMark + 1)..Len(spoken) : spoken[i] \notin nowPending

\* C4: a text passed to speak after cleanup() has returned is never handed
\* to the device.
C4_NoUtteranceOfLateText == \A i \in 1..Len(spoken) : spoken[i] \notin late

\* C5: once cleanup() has returned, no utter call starts at the device.
C5_NoUtteranceAfterCleanup == [][cleanupReturned => spoken' = spoken]_vars

\* The wait_until_done loop (called directly or from speak with wait) ends
\* in this step.
WaitEnds == mPc \in {"wait_a", "wait_b"} /\ mPc' = "idle"

\* C6: the value wait_until_done returns tells the caller which case
\* occurred: the values returned on a timeout and the values returned on
\* idle are different.
C6_ResultTellsCase == waitSeen["idle"] \cap waitSeen["timeout"] = {}

\* C6, amended: wait_until_done returns None however its loop ends, so the
\* result does not tell the cases apart; it ends as idle only on reading the
\* queue empty after reading is_speaking false, and as timed out only on
\* reading is_speaking true or the queue not empty.
C6_WaitReturnsNone ==
    [][WaitEnds =>
        /\ ret' = "None"
        /\ waitSeen'["idle"] \cup waitSeen'["timeout"] = {"None"}
        /\ waitCase' \in {"idle", "timeout"}
        /\ waitCase' = "idle" => (mPc = "wait_b" /\ speech_queue = <<>>)
        /\ waitCase' = "timeout" =>
             \/ (mPc = "wait_a" /\ is_speaking)
             \/ (mPc = "wait_b" /\ speech_queue # <<>>)]_vars

\* C6 witness: both ways of ending have occurred, each returning None.
C6_Witness ==
    /\ waitSeen["idle"] = {"None"}
    /\ waitSeen["timeout"] = {"None"}
    /\ mPc = "idle"
    /\ waitCase = "timeout"
    /\ InFlight

\* stop_all_speech (called directly or from cleanup) returns in this step.
StopAllReturns == mPc = "stop_unflag" /\ mPc' # "stop_unflag"

\* C7: when stop_all_speech is called while an utterance is in flight, then
\* at its return engine.stop() has been invoked, the queue is empty and
\* is_speaking is false.
C7_StopAllSilences ==
    [][(StopAllReturns /\ inflightAtCall) =>
        /\ stopSignalled'
        /\ speech_queue' = <<>>
        /\ is_speaking' = FALSE]_vars

\* C7 witness: stop_all_speech, called during the worker's utterance of the
\* first request with a second one pending, has returned while that utter
\* call has not: the stop was signalled without waiting for it.
C7_Witness ==
    /\ mPc = "idle"
    /\ mOp = "stop_all_speech"
    /\ ret = "None"
    /\ inflightAtCall
    /\ stopSignalled
    /\ Len(enqueued) = 2
    /\ Len(spoken) = 1
    /\ speech_queue = <<>>
    /\ ~is_speaking
    /\ WorkerInFlight

\* speak or speak_immediately has returned on a dispatcher whose engine
\* failed to initialise.
DegradedCallDone ==
    ~engine /\ mPc = "idle" /\ mOp \in {"speak", "speak_immediately"}

\* C10: after a failed device initialisation every speak and
\* speak_immediately returns an "unavailable" status, without raising and
\* without an utter call at the device.
C10_ReturnsUnavailable ==
    DegradedCallDone => (ret = "unavailable" /\ spoken = <<>>)

\* C10, amended: after a failed device initialisation every speak and
\* speak_immediately returns None (no status), does not raise, puts nothing
\* on a queue and causes no utter call; it prints the "TTS not available"
\* notice, except speak with an empty text, which returns silently.
C10_DegradedNoOp ==
    /\ ~engine => (spoken = <<>> /\ speech_queue = <<>> /\ wPc = "absent")
    /\ DegradedCallDone =>
        /\ ret = "None"
        /\ notice = (mOp = "speak_immediately" \/ mText # Empty)

\* C10 witness: the second call with a non-empty text, a speak, has returned
\* None with the notice.
C10_Witness ==
    /\ DegradedCallDone
    /\ mOp = "speak"
    /\ mText = 2
    /\ notice
    /\ ret = "None"

\* The number of steps the caller is at most away from the return of
\* cleanup(): what is left of the clearing loop, engine.stop(), the write of
\* is_speaking, the join.
CleanupRank ==
    CASE mPc = "stop_clear" -> 4 + Len(speech_queue)
      [] mPc = "stop_engine" -> 3
      [] mPc = "stop_unflag" -> 2
      [] mPc = "join" -> 1
      [] OTHER -> 0

\* C11: cleanup() never waits for the worker thread and always comes to its
\* return.  While the caller is inside cleanup() it has a step to take in
\* every state, whatever the worker is doing (also inside an utter call that
\* never returns: the join gives up); each of its steps brings it nearer to
\* the return, no step of the worker takes it further away, and the call
\* ends by returning None.
C11_CleanupReturns ==
    [][(mOp = "cleanup" /\ mPc # "idle") =>
        /\ ENABLED <<CleanupStep>>_vars
        /\ CleanupRank' <= CleanupRank
        /\ CleanupStep => CleanupRank' < CleanupRank
        /\ mPc' = "idle" => (ret' = "None" /\ cleanupReturned')]_vars

\* C11 witness: cleanup() has returned while the worker thread is still
\* inside the utter call it was in when cleanup() was called.
C11_Witness ==
    /\ mOp = "cleanup"
    /\ mPc = "idle"
    /\ ret = "None"
    /\ cleanupReturned
    /\ inflightAtCall
    /\ wPc = "run"

\* C15: once stop_flag is set no operation inserts into the queue: the
\* length of speech_queue never increases in a step taken with the flag set.
C15_NoInsertAfterLatch ==
    [][stop_flag => Len(speech_queue') <= Len(speech_queue)]_vars

\* C18: a fault raised by the device's utter call does not end the worker:
\* from the fault handler the worker sets is_speaking to false and goes back
\* to the head of its loop; it ends only on reading stop_flag set there; and
\* after a fault its next get still takes the head of the queue and hands
\* that request to the device.
C18_WorkerSurvivesFault ==
    [][/\ (wPc = "except" /\ wPc' # "except") =>
            (wPc' = "loop" /\ is_speaking' = FALSE)
       /\ (wPc # "exited" /\ wPc' = "exited") => (wPc = "loop" /\ stop_flag)
       /\ (faulted /\ wPc = "get" /\ wPc' # "get" /\ speech_queue # <<>>) =>
            /\ wPc' = "flag"
            /\ wText' = Head(speech_queue)
            /\ speech_queue' = Tail(speech_queue)
       /\ (faulted /\ wPc = "say" /\ wPc' # "say") =>
            spoken' = Append(spoken, wText)]_vars

\* C18 witness: the utter call for the first request raised, and the worker
\* is now inside the utter call for the second request, which was pending.
C18_Witness ==
    /\ faulted
    /\ ~preempted
    /\ ~stop_flag
    /\ Len(enqueued) = 2
    /\ spoken = enqueued
    /\ wPc = "run"
    /\ is_speaking

\* C20: when speak_immediately(x) was called while an utterance was in
\* flight, engine.stop() has been invoked by the time the utter call for x
\* begins.
C20_StopBeforeUtter ==
    (mPc = "now_run" /\ inflightAtCall) => stopSignalled

\* C22: stop_all_speech is idempotent.  Every stop_all_speech call, the
\* first as well as one that directly follows another, returns None with
\* the queue empty and is_speaking false, and no step of the call changes
\* stop_flag: two calls in succession leave queue, is_speaking and stop_flag
\* as one call does.  Without an engine the call changes nothing at all.
C22_StopAllIdempotent ==
    [][/\ (StopAllReturns /\ mOp = "stop_all_speech") =>
            /\ speech_queue' = <<>>
            /\ is_speaking' = FALSE
            /\ ret' = "None"
       /\ mOp' = "stop_all_speech" => stop_flag' = stop_flag
       /\ (~engine /\ mOp' = "stop_all_speech") =>
            /\ UNCHANGED <<speech_queue, is_speaking, mPc>>
            /\ ret' = "None"]_vars

\* C22 witness: with the first request in flight and a second one pending,
\* stop_all_speech was called twice in succession; the second call has
\* returned with the queue empty and is_speaking false.
C22_Witness ==
    /\ engine
    /\ mPc = "idle"
    /\ mOp = "stop_all_speech"
    /\ repeated
    /\ ret = "None"
    /\ Len(enqueued) = 2
    /\ Len(spoken) = 1
    /\ speech_queue = <<>>
    /\ ~is_speaking
    /\ ~stop_flag

\* A cleanup() call that directly followed a cleanup() call which had
\* returned returns in this step.
SecondCleanupReturns ==
    /\ cleanupReturned
    /\ repeated
    /\ mOp = "cleanup"
    /\ mPc = "join"
    /\ mPc' = "idle"

C24_WorkerExits ==
    /\ stop_flag ~> (wPc = "exited")
    /\ [][wPc = "exited" =>
            /\ wPc' = "exited"
            /\ wText' = wText
            /\ Len(speech_queue') < Len(speech_queue) =>
                 mPc \in {"now_clear", "stop_clear"}]_vars

\* C24 witness: stop_flag was set while the worker was uttering; the worker
\* has ended, and a request enqueued since then is still in the queue.
C24_Witness ==
    /\ stop_flag
    /\ wPc = "exited"
    /\ Len(spoken) = 1
    /\ Len(enqueued) = 2
    /\ speech_queue = <<enqueued[2]>>

\* C25: when wait_until_done ends because it read is_speaking false and
\* the queue empty, the worker holds no request that it has taken off the
\* queue and not yet handed to the device.
C25_IdleMeansNothingHeld ==
    [][(WaitEnds /\ waitCase' = "idle") => WorkerHolds = <<>>]_vars

\* C26: on a dispatcher whose engine failed to initialise no call raises to
\* its caller: speak, speak_immediately, wait_until_done, stop_all_speech
\* and cleanup all return.
C26_DegradedNeverRaises == (~engine /\ mOp # "none") => ret # "raised"

\* C27: a request that speak has put on the queue, with no call made after
\* it, is not left in the queue of a worker thread that has ended, where
\* no step can hand it to the device any more.
C27_NoStrandedRequest ==
    ~ /\ mOp = "speak"
      /\ mPc = "idle"
      /\ mText # Empty
      /\ speech_queue # <<>>
      /\ speech_queue[Len(speech_queue)] = mText
      /\ mText \notin SeqToSet(spoken)
      /\ wPc = "exited"

\* C21: is_speaking stays true for as long as an utterance is running.  The
\* caller is inside speak_immediately while its utterance runs, so it has
\* called neither stop_all_speech nor cleanup since that utterance began:
\* is_speaking is true whenever the caller's utter call is in flight.
C21_SpeakingWhileInFlight == CallerInFlight => is_speaking

----------------------------------------------------------------------------
\* Properties of the listening loop and the handler

\* For each list of exit phrases, the recognized texts that contain one of
\* its phrases, the case of both ignored.
ExitTextsOf ==
    [P \in ConfiguredPhraseSets |->
        {t \in RecognizedTexts :
            \E p \in P : IsSubstring(Lower(p), Lower(t))}]

\* The text contains an exit phrase.
ContainsExitPhrase(text) == text \in ExitTextsOf[exit_phrases]

IsExitText(o) == o.kind = "text" /\ ContainsExitPhrase(o.text)

IsPlainText(o) == o.kind = "text" /\ ~ContainsExitPhrase(o.text)

\* The recognized texts without exit phrase among outs, in order.
PlainTexts(outs) ==
    LET sel == SelectSeq(outs, IsPlainText)
    IN  [i \in 1..Len(sel) |-> sel[i].text]

AllButLast(outs) == SubSeq(outs, 1, Len(outs) - 1)

\* C8: whatever outcomes the Transcriber delivers, the callback has been
\* invoked exactly once, in order, for each recognized text without exit
\* phrase that the loop has dealt with, never for a timeout, an unrecognized
\* input or a service fault, and never for a text with an exit phrase; the
\* loop ends at the first text with an exit phrase, so no outcome follows
\* one.
C8_HandlerOncePerText ==
    /\ \A i \in 1..(Len(outcomes) - 1) : ~IsExitText(outcomes[i])
    /\ lPc \in {"listen", "speak_text", "sleep"} =>
         handled = PlainTexts(outcomes)
    /\ lPc \in {"check", "callback"} =>
         handled = PlainTexts(AllButLast(outcomes))
    /\ lPc = "callback" => IsPlainText(outcomes[Len(outcomes)])
    /\ lPc = "terminated" =>
         handled \in {PlainTexts(outcomes), PlainTexts(AllButLast(outcomes))}
    /\ (lPc = "terminated" /\ lEnd = "exit") =>
         /\ outcomes # <<>>
         /\ IsExitText(outcomes[Len(outcomes)])
         /\ handled = PlainTexts(outcomes)
    /\ (outcomes # <<>> /\ IsExitText(outcomes[Len(outcomes)])) =>
         lPc \in {"check", "terminated"}

\* C8 witness: a timeout, a plain text, a service fault, then a text with
\* the exit phrase "exit": the callback ran once, for the plain text, and
\* the loop ended on the exit text.
C8_Witness ==
    /\ Len(outcomes) = 4
    /\ outcomes[1].kind = "TimedOut"
    /\ IsPlainText(outcomes[2])
    /\ outcomes[3].kind = "ServiceFault"
    /\ outcomes[4].text =
         <<"p", "l", "e", "a", "s", "e", " ", "e", "x", "i", "t">>
    /\ handled = <<outcomes[2].text>>
    /\ lPc = "terminated"
    /\ lEnd = "exit"

\* C9: when get_response returns None, handle_user_speech makes exactly one
\* speech call, a speak on the VoiceSpeaker with the fallback apology.
C9_ApologyEnqueued ==
    (lPc = "sleep" /\ bot_response = NoResponse) =>
        callLog = <<[by |-> "VoiceSpeaker.speak", text |-> Apology]>>

\* C13: for every recognized text and every configured list of exit
\* phrases, the loop ends on the text if and only if some phrase of the list
\* occurs in it, the case of both ignored: a loop that ended by an exit
\* command ended on such a text, and no such text is passed on to the
\* callback.
C13_ExitIffCaseInsensitive ==
    /\ (lPc = "terminated" /\ lEnd = "exit") =>
         ContainsExitPhrase(recognized_text)
    /\ lPc = "callback" => ~ContainsExitPhrase(recognized_text)

\* C14: run without an exit_phrases argument, the loop ends on every
\* recognized text that contains one of exit, close, finish, stop, quit and
\* bye: no such text is passed on to the callback.
C14_DefaultEndsOnBye ==
    (exit_phrases = DefaultExitPhrases /\ lPc = "callback") =>
        recognized_text \notin ExitTextsOf[MainExitPhrases]

\* C19: the loop ends only by the break of an exit command or by a
\* KeyboardInterrupt.  A listen_once call that met a fault returns None and
\* the loop goes to its pause; a callback that raises is caught and the loop
\* goes to its pause; from the pause the loop goes to the next listen_once.
C19_LoopSurvivesFaults ==
    [][/\ (lPc # "terminated" /\ lPc' = "terminated") =>
            \/ lEnd' = "interrupt"
            \/ /\ lEnd' = "exit"
               /\ lPc = "check"
               /\ ContainsExitPhrase(recognized_text)
       /\ (lPc = "listen" /\ lPc' = "check"
            /\ outcomes'[Len(outcomes')].kind # "text") =>
            recognized_text' = <<>>
       /\ (lPc = "check" /\ recognized_text = <<>> /\ lPc' # "check") =>
            lPc' \in {"sleep", "terminated"}
       /\ (callbackRaised' /\ ~callbackRaised) => lPc' = "sleep"
       /\ (lPc = "sleep" /\ lPc' # "sleep") =>
            lPc' \in {"listen", "terminated"}]_vars

\* C19 witness: the first listen_once met a service fault, the callback
\* raised on the text of the second, and the loop has made a third
\* listen_once call.
C19_Witness ==
    /\ Len(outcomes) = 3
    /\ outcomes[1].kind = "ServiceFault"
    /\ outcomes[2].kind = "text"
    /\ outcomes[3].kind # "text"
    /\ handled = <<outcomes[2].text>>
    /\ callbackRaised
    /\ lPc = "check"

----------------------------------------------------------------------------
\* Properties of the program as a whole

\* The process has ended by a termination signal.
ExitedBySignal == bPc = "exited" /\ signalled # "none"

\* C12: when a termination signal arrived after the VoiceSpeaker had been
\* constructed, shutdown has called speaker.cleanup() by the time the
\* process has exited.
C12_SignalInvokesCleanup ==
    (ExitedBySignal /\ speaker) => cleanupCalls >= 1

\* C16: every speech call of the program (greeting, reply, apology) is a
\* speak or speak_immediately call on the VoiceSpeaker: no other component
\* creates or drives a speech device.
C16_SpeechOnlyByDispatcher ==
    \A i \in 1..Len(callLog) :
        callLog[i].by \in {"VoiceSpeaker.speak",
                           "VoiceSpeaker.speak_immediately"}

\* C17: a process ended by SIGINT or SIGTERM has a non-zero exit status,
\* different from the status of a normal termination.
C17_SignalExitNonZero ==
    ExitedBySignal =>
        (exit_status # 0 /\ exit_status # ExitStatus("return"))

\* C17, amended: a process ended by SIGINT or SIGTERM has exit status 0,
\* the same status as a run that ended by an exit phrase.
C17_SignalExitZero ==
    /\ ExitedBySignal => exit_status = 0
    /\ (bPc = "exited" /\ signalled = "none") => exit_status = 0
    /\ bPc # "exited" => exit_status = -1

\* C17 witness: a signal arrived while the listening loop was at work and
\* the process has ended with status 0.
C17_Witness ==
    /\ ExitedBySignal
    /\ signalled = "listening"
    /\ handled # <<>>
    /\ cleanupCalls = 1
    /\ exit_status = 0

====
